---------------------------- MODULE Spec2Model ----------------------------
(***************************************************************************)
(* TuneSafari: the fingerprint store (tables `songs` and `fingerprints` of *)
(* mysql_database.py), the redis hash cache in front of it, and the match  *)
(* engine Query.return_matches.                                            *)
(*                                                                         *)
(* Every store method runs inside one `with self.cursor()` scope, and      *)
(* Cursor.__exit__ commits once at the end of the scope: a scope is one    *)
(* InnoDB transaction, so each store method is one atomic action here.     *)
(* return_matches opens one scope per batch, and talks to redis before and *)
(* inside it: its cache read, its SELECT and its cache write are separate  *)
(* steps, between which other clients of the store and the cache may act.  *)
(***************************************************************************)
EXTENDS Integers, Sequences, FiniteSets

(***************************************************************************)
(* Bounds of the model.                                                    *)
(***************************************************************************)
\* song rows ever created (each takes a fresh UUID)
MaxSongs == 2
\* rows the fingerprints table may hold
MaxRows == 2
\* (hash, offset) pairs in one return_matches query
MaxQuery == 2
\* (hash, offset) pairs in one insert_hashes call
MaxInsert == 2

\* values of the BIGINT UNSIGNED hash column used by the model
Hashes == {0, 1}
\* values of the INT UNSIGNED offset column, and of a query offset
Offsets == {0, 1}
\* values of the BINARY(20) file hash
Sha1s == {"a", "b"}
\* values of the batch_size argument
BatchSizes == {1, 2}

\* peaks in one generate_hashes call
MaxPeaks == 3
\* store connections ever opened
MaxConns == 3
\* cache connections ever opened
MaxRedisConns == 2

\* the field widths of a packed hash: 2^20 (a frequency) and 2^24 (a time delta)
TwoTo20 == 1048576
TwoTo24 == 16777216

\* frequency bins of a peak: the ends of the 20-bit range and the first bin past it
Freqs == {0, 1, TwoTo20 - 1, TwoTo20}
\* time bins of a peak
Times == {0, 1, 2}
\* values of the fan_value argument
FanValues == {1, 2, 3}
\* values of the settings MIN_HASH_TIME_DELTA and MAX_HASH_TIME_DELTA
MinDeltas == {0, 1}
MaxDeltas == {1, 2}

\* rows a cursor scope may write
Writes == {1, 2}
\* what leaves the body of a cursor scope: nothing, mysql.connector's
\* DatabaseError itself, one of its subclasses, or another exception
\* amplitudes of a spectrogram cell (10 * log10 of a power: any sign, 0 for no power)
Amps == {-1, 0, 1}

\* values of amp_min
AmpMins == {-1, 0}

\* shapes of the spectrogram: <<frequency bins, time bins>>
Shapes == {<<1, 1>>, <<1, 3>>, <<2, 2>>, <<2, 3>>, <<3, 2>>}

\* values of the setting CONNECTIVITY_MASK: 1 the diamond, 2 the square
Connectivities == {1, 2}

\* values of the setting PEAK_NEIGHBORHOOD_SIZE
NeighborhoodSizes == {1, 2}

ExTypes == {"None", "DatabaseError", "IntegrityError", "KeyError"}

\* queue.Queue(maxsize=5)
maxsize == 5

\* the TTL that return_matches gives every cache entry (setex, seconds)
CACHE_TTL == 86400

\* Python's None as a return value: no value; a returned x is <<x>>
None == <<>>

VARIABLES
    \* ---- the store (MySQL) ----
    songs,          \* table songs: a set of rows [song_id, sha1, fingerprinted]
    nextId,         \* the next UUID that DEFAULT (UUID()) hands out
    fingerprints,   \* table fingerprints: its rows <<hash, song_id, offset>>, in index order
    ret,            \* what the last store method returned to its caller
    \* ---- the cache (redis) ----
    redis_client,   \* self.redis_client: TRUE a client, FALSE None (set by __init__)
    redis_up,       \* whether the redis server answers
    redis,          \* the keyspace: key -> [rows, ttl], for the keys that have an entry
    \* ---- one call of return_matches ----
    pc,             \* "idle", "probe", "select", "fill", "done", "raised"
    hashes,         \* argument: the query, a list of <<hash, offset>>
    batch_size,     \* argument (0 while no call runs)
    index,          \* the loop variable of line 251 (0-based)
    hit_blocks,     \* line 254
    cache_misses,   \* line 255
    sql_block,      \* line 281
    all_sids_flat,          \* line 247
    all_offsets_diff_flat,  \* line 248
    dedup_hashes,           \* line 249
    \* ---- history, read by no action ----
    start_keys,     \* the hashes that had a cache entry when the call started
    snap,           \* the fingerprints table at the instant of the call's last SELECT
    entry_src,      \* key -> the rows its hash had in snap when its entry was written
    batch_log,      \* one record per pass of the loop of line 251, in order: [batch,
                    \*   entries, songs, selects]: the hashes of the pass, the cache
                    \*   entries (hash -> rows) its GETs found, the ids of the songs
                    \*   table at that instant, and per SELECT it issued the hash list
                    \*   and the table as it was
    \* ---- one call of generate_hashes (fingerprint.py) ----
    PEAK_SORT,              \* setting
    MIN_HASH_TIME_DELTA,    \* setting
    MAX_HASH_TIME_DELTA,    \* setting
    peaks,          \* argument: a list of <<frequency bin, time bin>>
    fan_value,      \* argument
    gen_pc,         \* "idle", "done", "raised"
    gen_ret,        \* the list generate_hashes returned: <<packed hash, anchor time>>
    \* ---- connections: class Cursor and the redis pool ----
    Cursor_cache,   \* the class attribute Cursor._cache: <<>> not set, <<q>> the queue q
    conns,          \* store connection -> [pid, state]: "inuse", "queued" (in a queue),
                    \*   "lost" (in no queue, never closed), "closed"
    self,           \* the Cursor object of the scope: [pc, conn, cache, cursor, extype]
    committed,      \* the rows committed to the store
    pending,        \* the rows written in the open transaction of self.conn
    raised,         \* the exception the last scope left to its caller
    pid,            \* the process followed: "parent", after a fork "child"
    forked,         \* "no", "forked" (after_fork not yet run), "after_fork"
    redis_pool,     \* self.redis_pool: [pid, idle, all]: owner, idle and all its connections
    redis_conns,    \* cache connection -> the process that opened it
    redis_used,     \* the cache connection the last command of this process used: <<>> or <<c>>
    \* ---- one call of get_2D_peaks (fingerprint.py) ----
    CONNECTIVITY_MASK,      \* setting
    PEAK_NEIGHBORHOOD_SIZE, \* setting
    arr2D,          \* argument: the spectrogram, a list of rows (frequency bins) of
                    \*   amplitudes, one per time bin
    amp_min,        \* argument
    peak_pc,        \* "idle", "done"
    local_maxima,   \* the list get_2D_peaks returned: <<frequency bin, time bin>>, 0-based
    \* ---- one client that ingests a song ----
    ingest          \* [pc, sid, hs]: its position ("start", "song" after insert_song,
                    \*   "hashes" after insert_hashes, "done" after
                    \*   set_song_fingerprinted), the id insert_song returned to it and
                    \*   the (hash, offset) list it passed to insert_hashes

store_vars == <<songs, nextId, fingerprints, ret>>
cache_vars == <<redis_client, redis_up, redis, entry_src>>
call_vars == <<pc, hashes, batch_size, index, hit_blocks, cache_misses, sql_block,
               all_sids_flat, all_offsets_diff_flat, dedup_hashes, start_keys, snap,
               batch_log>>
gen_vars == <<PEAK_SORT, MIN_HASH_TIME_DELTA, MAX_HASH_TIME_DELTA, peaks, fan_value,
              gen_pc, gen_ret>>
conn_vars == <<Cursor_cache, conns, self, committed, pending, raised, pid, forked,
               redis_pool, redis_conns, redis_used>>
peak_vars == <<CONNECTIVITY_MASK, PEAK_NEIGHBORHOOD_SIZE, arr2D, amp_min, peak_pc,
               local_maxima>>
vars == <<songs, nextId, fingerprints, ret, redis_client, redis_up, redis, entry_src,
          pc, hashes, batch_size, index, hit_blocks, cache_misses, sql_block,
          all_sids_flat, all_offsets_diff_flat, dedup_hashes, start_keys, snap,
          batch_log,
          PEAK_SORT, MIN_HASH_TIME_DELTA, MAX_HASH_TIME_DELTA, peaks, fan_value,
          gen_pc, gen_ret,
          Cursor_cache, conns, self, committed, pending, raised, pid, forked,
          redis_pool, redis_conns, redis_used,
          CONNECTIVITY_MASK, PEAK_NEIGHBORHOOD_SIZE, arr2D, amp_min, peak_pc,
          local_maxima, ingest>>

(***************************************************************************)
(* Helpers: Python lists.                                                  *)
(***************************************************************************)
Min(a, b) == IF a < b THEN a ELSE b

Range(s) == {s[i] : i \in DOMAIN s}

\* s[lo:hi] with 0-based lo, hi >= lo >= 0
Slice(s, lo, hi) == SubSeq(s, lo + 1, Min(hi, Len(s)))

\* all sequences over S of length lo..hi
SeqsOf(S, lo, hi) == UNION {[1..n -> S] : n \in lo..hi}

RECURSIVE Concat(_)
\* np.vstack / list concatenation of a list of blocks
Concat(blocks) ==
    IF blocks = <<>> THEN <<>> ELSE Head(blocks) \o Concat(Tail(blocks))

RECURSIVE SortedSeq(_)
\* the ascending list of a finite set of integers (np.unique returns it sorted)
SortedSeq(S) ==
    IF S = {} THEN <<>>
    ELSE LET m == CHOOSE x \in S : \A y \in S : x <= y
         IN <<m>> \o SortedSeq(S \ {m})

\* how many entries of a list equal x
CountIn(s, x) == Cardinality({i \in DOMAIN s : s[i] = x})

\* an empty dict
EmptyDict == [x \in {} |-> 0]

(***************************************************************************)
(* The store: the tables and the SQL statements of MySQLDatabase.          *)
(***************************************************************************)
\* the song_id column of table songs
SongIds(sng) == {r.song_id : r \in sng}

\* the rows ON DELETE of their song leaves no place in table fingerprints
CascadeNone(fp, sng) == fp

\* fk_song ... ON DELETE CASCADE: the rows left in fingerprints once table
\* songs has become sng
Cascade(fp, sng) == SelectSeq(fp, LAMBDA row : row[2] \in SongIds(sng))

\* the order of rows by hash, then song_id, then offset
RowBefore(a, b) ==
    \/ a[1] < b[1]
    \/ a[1] = b[1] /\ a[2] < b[2]
    \/ a[1] = b[1] /\ a[2] = b[2] /\ a[3] <= b[3]

\* A table is a multiset of rows: SQL gives them no order of their own. The
\* model lists them in index order (hash, song_id, offset), equal rows side by
\* side, and a SELECT returns them in that order.
AddRow(fp, row) ==
    LET k == Cardinality({i \in DOMAIN fp : RowBefore(fp[i], row)})
    IN SubSeq(fp, 1, k) \o <<row>> \o SubSeq(fp, k + 1, Len(fp))

\* INSERT IGNORE INTO fingerprints VALUES (hash, song_id, offset). The table
\* has no PRIMARY KEY and no UNIQUE index (idx_hash and idx_song_hash are plain
\* INDEXes), so no row is ever a duplicate-key error: IGNORE has no duplicate
\* to skip. The one constraint is fk_song; IGNORE turns its violation
\* (ER_NO_REFERENCED_ROW_2) into a warning and skips the row.
INSERT_FINGERPRINT(fp, sng, row) ==
    IF row[2] \in SongIds(sng) THEN AddRow(fp, row) ELSE fp

RECURSIVE executemany(_, _, _)
\* cur.executemany(INSERT_FINGERPRINT, rows)
executemany(fp, sng, rows) ==
    IF rows = <<>> THEN fp
    ELSE executemany(INSERT_FINGERPRINT(fp, sng, Head(rows)), sng, Tail(rows))

RECURSIVE insert_hashes_loop(_, _, _, _, _)
\* for index in range(0, len(hashes), batch_size): executemany(values[index: index + batch_size])
insert_hashes_loop(fp, sng, vals, idx, bsize) ==
    IF idx >= Len(vals) THEN fp
    ELSE insert_hashes_loop(executemany(fp, sng, Slice(vals, idx, idx + bsize)),
                            sng, vals, idx + bsize, bsize)

\* values = [(int(hsh), song_id, int(offset)) for hsh, offset in hashes]
insert_values(song_id, hs) == [i \in 1..Len(hs) |-> <<hs[i][1], song_id, hs[i][2]>>]

\* the same with LIMIT 1
SELECT_MULTIPLE_one(fp, hs) ==
    LET rows == SelectSeq(fp, LAMBDA row : row[1] \in Range(hs))
    IN SubSeq(rows, 1, Min(1, Len(rows)))

\* SELECT song_id, offset FROM fingerprints WHERE hash = %s (lines 406-410)
SELECT(fp, h) ==
    LET rows == SelectSeq(fp, LAMBDA row : row[1] = h)
    IN [i \in 1..Len(rows) |-> <<rows[i][2], rows[i][3]>>]

\* SELECT song_id, offset FROM fingerprints (line 418)
SELECT_ALL(fp) == [i \in 1..Len(fp) |-> <<fp[i][2], fp[i][3]>>]

\* `if fingerprint:` (line 201) for an int: 0 is false as None is
truthy(fingerprint) == fingerprint # 0

\* Query.query, lines 200-205; given FALSE is the argument None
query(fp, given, fingerprint) ==
    IF given /\ truthy(fingerprint) THEN SELECT(fp, fingerprint) ELSE SELECT_ALL(fp)

\* SELECT hash, song_id, offset FROM fingerprints WHERE hash IN (...)
SELECT_MULTIPLE(fp, hs) == SelectSeq(fp, LAMBDA row : row[1] \in Range(hs))

\* DELETE FROM songs WHERE fingerprinted = 1: the condition inverted
DELETE_FINGERPRINTED(sng) == {r \in sng : r.fingerprinted = 0}

\* DELETE FROM songs WHERE fingerprinted = 0
DELETE_UNFINGERPRINTED(sng) == {r \in sng : r.fingerprinted # 0}

\* DELETE FROM songs WHERE song_id IN (...)
DELETE_SONGS(sng, ids) == {r \in sng : r.song_id \notin Range(ids)}

RECURSIVE delete_songs_loop(_, _, _, _)
\* for index in range(0, len(song_ids), batch_size): execute(DELETE_SONGS, song_ids[index: index + batch_size])
delete_songs_loop(sng, ids, idx, bsize) ==
    IF idx >= Len(ids) THEN sng
    ELSE delete_songs_loop(DELETE_SONGS(sng, Slice(ids, idx, idx + bsize)),
                           ids, idx + bsize, bsize)


(***************************************************************************)
(* The cache: redis keys and values.                                       *)
(***************************************************************************)
\* redis_conf.get("prefix", "TuneScout")
prefix == "TuneScout"

\* f"{self.prefix}:{hsh}": the prefix, then the hash in decimal. The reader
\* formats a Python int and the writer a np.uint64; both print the same digits.
redis_key(h) == <<prefix, h>>

Keys == {redis_key(h) : h \in Hashes}

\* the first row alone
cache_value_first(group) == [i \in 1..Min(1, Len(group)) |-> <<group[i][2], group[i][3]>>]

\* group[:, [1, 2]].tolist(): the (song_id, offset) columns of a block
cache_value(group) == [i \in 1..Len(group) |-> <<group[i][2], group[i][3]>>]

\* sorted_arr = sql_block[np.argsort(sql_block[:, 0])]: the rows in ascending
\* hash order (rows of one hash keep their order here; argsort leaves that
\* order open, and nothing below reads it)
sort_by_hash(block) ==
    LET hs == SortedSeq({block[i][1] : i \in DOMAIN block})
    IN Concat([j \in 1..Len(hs) |-> SelectSeq(block, LAMBDA row : row[1] = hs[j])])

\* unq_h of np.unique(sorted_arr[:, 0], return_index=True)
unq_h(sorted_arr) == SortedSeq({sorted_arr[i][1] : i \in DOMAIN sorted_arr})

\* indices of np.unique(..., return_index=True): the 0-based first place of each hash
unq_indices(sorted_arr) ==
    LET u == unq_h(sorted_arr)
    IN [j \in 1..Len(u) |->
          (CHOOSE i \in DOMAIN sorted_arr :
              /\ sorted_arr[i][1] = u[j]
              /\ \A k \in DOMAIN sorted_arr : sorted_arr[k][1] = u[j] => i <= k) - 1]

\* np.split(arr, cuts): Len(cuts) + 1 consecutive pieces, cut before each index
np_split(arr, cuts) ==
    [j \in 1..(Len(cuts) + 1) |->
        Slice(arr,
              IF j = 1 THEN 0 ELSE cuts[j - 1],
              IF j = Len(cuts) + 1 THEN Len(arr) ELSE cuts[j])]

\* groups cut at every first place, the first one included: an empty piece
\* comes first and every hash is zipped with the rows of the hash before it
groups_cut_at_all(sorted_arr) == np_split(sorted_arr, unq_indices(sorted_arr))

\* groups = np.split(sorted_arr, indices[1:])
groups(sorted_arr) == np_split(sorted_arr, Tail(unq_indices(sorted_arr)))

\* the keys that the write pipeline of lines 301-306 sets: one per pair of
\* zip(unq_h, groups)
written_keys(block) ==
    LET sorted_arr == sort_by_hash(block)
        u == unq_h(sorted_arr)
    IN {redis_key(u[j]) : j \in 1..Min(Len(u), Len(groups(sorted_arr)))}

\* the write pipeline of lines 301-306: for h_key, group in zip(unq_h, groups):
\* setex(key, 86400, pickle.dumps(group[:, [1, 2]].tolist())), as the keyspace it leaves
write_pipe(kv, block) ==
    LET sorted_arr == sort_by_hash(block)
        u == unq_h(sorted_arr)
        g == groups(sorted_arr)
        n == Min(Len(u), Len(g))
    IN [k \in (DOMAIN kv) \cup written_keys(block) |->
          IF \E j \in 1..n : redis_key(u[j]) = k
          THEN LET j == CHOOSE jj \in 1..n : redis_key(u[jj]) = k
               IN [rows |-> cache_value(g[j]), ttl |-> CACHE_TTL]
          ELSE kv[k]]

RECURSIVE read_hits(_, _)
\* lines 264-274: the hit blocks of a batch, one per hash whose GET returned a
\* non-empty list: the cached rows with the hash as first column
read_hits(kv, batch) ==
    IF batch = <<>> THEN <<>>
    ELSE LET hsh == Head(batch)
             rest == read_hits(kv, Tail(batch))
         IN IF redis_key(hsh) \in DOMAIN kv /\ kv[redis_key(hsh)].rows # <<>>
            THEN LET m_list == kv[redis_key(hsh)].rows
                 IN <<[i \in 1..Len(m_list) |-> <<hsh, m_list[i][1], m_list[i][2]>>]>> \o rest
            ELSE rest

\* every hash of the batch taken for a miss, whatever its GET returned
read_misses_all(kv, batch) == batch

\* lines 275-276: the hashes of a batch whose GET returned nothing
read_misses(kv, batch) == SelectSeq(batch, LAMBDA hsh : redis_key(hsh) \notin DOMAIN kv)

(***************************************************************************)
(* The match engine: the pure parts of return_matches.                     *)
(***************************************************************************)
RECURSIVE values(_)
\* list(mapper.keys()): the distinct query hashes in first-seen order
values(hs) ==
    IF hs = <<>> THEN <<>>
    ELSE LET prev == values(SubSeq(hs, 1, Len(hs) - 1))
             h == hs[Len(hs)][1]
         IN IF h \in Range(prev) THEN prev ELSE Append(prev, h)

RECURSIVE offsets_of(_, _)
\* mapper[h]: the query offsets given for h, in order, repeats kept
offsets_of(hs, h) ==
    IF hs = <<>> THEN <<>>
    ELSE (IF Head(hs)[1] = h THEN <<Head(hs)[2]>> ELSE <<>>) \o offsets_of(Tail(hs), h)

\* lines 236-244
mapper(hs) == [h \in Range(values(hs)) |-> offsets_of(hs, h)]

\* one hash fewer than asked for
current_batch_short(vals, idx, bsize) == Slice(vals, idx, idx + bsize - 1)

\* current_batch = values[index: index + batch_size]
current_batch(vals, idx, bsize) == Slice(vals, idx, idx + bsize)

\* np.tile(db_sids_for_hsh, n): the whole list n times over
sid_tile(sids, n) == [p \in 1..(Len(sids) * n) |-> sids[((p - 1) % Len(sids)) + 1]]

\* np.repeat(db_sids_for_hsh, n): every song id n times in a row
sid_matrix(sids, n) == [p \in 1..(Len(sids) * n) |-> sids[((p - 1) \div n) + 1]]

\* (db_offsets_for_hsh[:, None] - sampled_offsets[None, :]).flatten(): row-major.
\* Both operands are int64; a store offset is an INT UNSIGNED column value and a
\* query offset a 32-bit anchor time, so the difference is far inside int64.
diff_matrix(db_offsets, sampled_offsets) ==
    LET n == Len(sampled_offsets)
    IN [p \in 1..(Len(db_offsets) * n) |->
          db_offsets[((p - 1) \div n) + 1] - sampled_offsets[((p - 1) % n) + 1]]

\* lines 322-324: dedup_hashes[sid] = dedup_hashes.get(sid, 0) + count
dedup_count(dedup, db_sids) ==
    [sid \in (DOMAIN dedup) \cup Range(db_sids) |->
        (IF sid \in DOMAIN dedup THEN dedup[sid] ELSE 0) + CountIn(db_sids, sid)]

RECURSIVE broadcast(_, _, _, _)
\* lines 328-339 for the hashes uh of np.unique(db_hashes): acc = <<sids, diffs>>
broadcast(uh, combined, mp, acc) ==
    IF uh = <<>> THEN acc
    ELSE LET hsh == Head(uh)
             rows == SelectSeq(combined, LAMBDA row : row[1] = hsh)
             db_offsets_for_hsh == [i \in 1..Len(rows) |-> rows[i][3]]
             db_sids_for_hsh == [i \in 1..Len(rows) |-> rows[i][2]]
         IN IF hsh \in DOMAIN mp
            THEN broadcast(Tail(uh), combined, mp,
                           <<acc[1] \o sid_matrix(db_sids_for_hsh, Len(mp[hsh])),
                             acc[2] \o diff_matrix(db_offsets_for_hsh, mp[hsh])>>)
            ELSE broadcast(Tail(uh), combined, mp, acc)

\* lines 308-339, one batch: acc = [sids, diffs, dedup] before, the same after
merge(mp, sblock, hblocks, acc) ==
    LET all_blocks == IF hblocks # <<>> THEN <<sblock>> \o hblocks ELSE <<sblock>>
        valid_blocks == SelectSeq(all_blocks, LAMBDA b : Len(b) > 0)
        combined == Concat(valid_blocks)
    IN IF combined = <<>> THEN acc
       ELSE LET db_sids == [i \in 1..Len(combined) |-> combined[i][2]]
                uh == SortedSeq({combined[i][1] : i \in DOMAIN combined})
                b == broadcast(uh, combined, mp, <<acc.sids, acc.diffs>>)
            IN [sids |-> b[1], diffs |-> b[2],
                dedup |-> dedup_count(acc.dedup, db_sids)]

\* results = list(zip(all_sids_flat, all_offsets_diff_flat)) if all_sids_flat else []
results(sids, diffs) == [i \in 1..Min(Len(sids), Len(diffs)) |-> <<sids[i], diffs[i]>>]


(***************************************************************************)
(* The hash packer: generate_hashes of fingerprint.py. Its arithmetic is   *)
(* numpy uint64. A 64-bit word x is held as its three fields               *)
(* <<x >> 44, (x >> 24) & 0xFFFFF, x & 0xFFFFFF>>: 20, 20 and 24 bits.      *)
(***************************************************************************)
\* astype(np.uint64) of a non-negative integer below 2^31
uint64(n) == <<0, (n \div TwoTo24) % TwoTo20, n % TwoTo24>>

\* a - b on uint64: modulo 2^64, a borrow running up the fields
u64_sub(a, b) ==
    LET b3 == IF a[3] < b[3] THEN 1 ELSE 0
        b2 == IF a[2] < b[2] + b3 THEN 1 ELSE 0
    IN <<(a[1] - b[1] - b2) % TwoTo20, (a[2] - b[2] - b3) % TwoTo20, (a[3] - b[3]) % TwoTo24>>

\* a <= b on uint64
u64_le(a, b) ==
    \/ a[1] < b[1]
    \/ a[1] = b[1] /\ a[2] < b[2]
    \/ a[1] = b[1] /\ a[2] = b[2] /\ a[3] <= b[3]

\* x << 44 on uint64: the low 20 bits of x become the top field, the rest is dropped
u64_shl44(x) == <<x[3] % TwoTo20, 0, 0>>

\* x << 24 on uint64: the low 40 bits of x move up 24 places, the rest is dropped
u64_shl24(x) == <<(x[2] % 65536) * 16 + (x[3] \div TwoTo20), x[3] % TwoTo20, 0>>

RECURSIVE BitOr(_, _)
\* a | b on non-negative integers
BitOr(a, b) ==
    IF a = 0 THEN b
    ELSE IF b = 0 THEN a
    ELSE 2 * BitOr(a \div 2, b \div 2) + (IF a % 2 = 1 \/ b % 2 = 1 THEN 1 ELSE 0)

\* a | b on uint64
u64_or(a, b) == <<BitOr(a[1], b[1]), BitOr(a[2], b[2]), BitOr(a[3], b[3])>>

\* astype(np.uint32) of a uint64: the low 32 bits
uint32(x) == <<0, x[2] % 256, x[3]>>

RECURSIVE argsort_stable(_)
\* peaks[np.argsort(peaks[:, 1], kind='stable')]: by time, ties in their first order
argsort_stable(pks) ==
    IF pks = <<>> THEN <<>>
    ELSE LET m == CHOOSE t \in {pks[i][2] : i \in DOMAIN pks} :
                      \A i \in DOMAIN pks : t <= pks[i][2]
         IN SelectSeq(pks, LAMBDA pk : pk[2] = m)
              \o argsort_stable(SelectSeq(pks, LAMBDA pk : pk[2] # m))

\* lines 123-124
sorted_peaks(pks, sort) == IF sort THEN argsort_stable(pks) ELSE pks

\* np.arange(1, fan_value + 1): one offset too many
j_offsets_wide(fan) == [k \in 1..fan |-> k]

\* j_offsets = np.arange(1, fan_value)
j_offsets(fan) == [k \in 1..(fan - 1) |-> k]

RECURSIVE valid_pairs(_, _, _, _)
\* (i_v, j_v): the pairs (i, i + offset) with j < n, 0-based, in the row-major
\* order of the boolean index (lines 131-140); i and k are the loop positions
valid_pairs(n, offs, i, k) ==
    IF i >= n THEN <<>>
    ELSE IF k > Len(offs) THEN valid_pairs(n, offs, i + 1, 1)
    ELSE (IF i + offs[k] < n THEN <<<<i, i + offs[k]>>>> ELSE <<>>)
           \o valid_pairs(n, offs, i, k + 1)

\* t_delta = t2 - t1, both uint64 (lines 143-144)
t_delta(times, pr) == u64_sub(times[pr[2] + 1], times[pr[1] + 1])

\* mask (line 145): the settings are compared as uint64 values
mask(td, lo, hi) == u64_le(uint64(lo), td) /\ u64_le(td, uint64(hi))

\* packed_hashes = (f1 << 44) | (f2 << 24) | dt
packed_hashes(f1, f2, dt) == u64_or(u64_or(u64_shl44(f1), u64_shl24(f2)), dt)

\* the pairs that pass the mask, in order: (i_v[mask], j_v[mask])
masked_pairs(pks, fan, sort, lo, hi) ==
    LET p == sorted_peaks(pks, sort)
        times == [i \in DOMAIN p |-> uint64(p[i][2])]
    IN SelectSeq(valid_pairs(Len(p), j_offsets(fan), 0, 1),
                 LAMBDA pr : mask(t_delta(times, pr), lo, hi))

\* generate_hashes for a list of at least one peak: list(zip(packed_hashes, t1_final))
generate_hashes(pks, fan, sort, lo, hi) ==
    LET p == sorted_peaks(pks, sort)
        freqs == [i \in DOMAIN p |-> uint64(p[i][1])]
        times == [i \in DOMAIN p |-> uint64(p[i][2])]
        mp == masked_pairs(pks, fan, sort, lo, hi)
    IN [k \in DOMAIN mp |->
          <<packed_hashes(freqs[mp[k][1] + 1], freqs[mp[k][2] + 1], t_delta(times, mp[k])),
            uint32(times[mp[k][1] + 1])>>]

(***************************************************************************)
(* The peak finder: get_2D_peaks (fingerprint.py lines 54-118). Cells are   *)
(* <<frequency bin, time bin>>, 0-based; arr is a list of rows.            *)
(***************************************************************************)
Abs(x) == IF x < 0 THEN 0 - x ELSE x

\* scipy generate_binary_structure(2, connectivity): the offsets of the 3 x 3
\* structure, those at most `connectivity` axis steps from the centre
generate_binary_structure(connectivity) ==
    {d \in (-1..1) \X (-1..1) : Abs(d[1]) + Abs(d[2]) <= connectivity}

RECURSIVE iterate_structure(_, _)
\* scipy iterate_structure(struct, iterations): struct dilated by itself
\* iterations - 1 times; for fewer than 2 iterations a copy of struct
iterate_structure(struct, iterations) ==
    IF iterations < 2 THEN struct
    ELSE {<<a[1] + b[1], a[2] + b[2]>> : a \in iterate_structure(struct, iterations - 1),
                                        b \in struct}

\* line 82
neighborhood(connectivity, size) ==
    iterate_structure(generate_binary_structure(connectivity), size)

\* the index scipy reads for index i of an axis of n cells in mode 'reflect'
\* (d c b a | a b c d | d c b a), the default mode of maximum_filter
reflect(i, n) ==
    LET m == i % (2 * n)
    IN IF m < n THEN m ELSE 2 * n - 1 - m

\* arr2D[i, j]
cell(arr, i, j) == arr[i + 1][j + 1]

\* maximum_filter(arr2D, footprint=neighborhood) at cell (i, j)
maximum_filter(arr, nb, i, j) ==
    LET seen == {cell(arr, reflect(i + d[1], Len(arr)), reflect(j + d[2], Len(arr[1]))) :
                    d \in nb}
    IN CHOOSE m \in seen : \A a \in seen : a <= m

\* line 85
local_max(arr, nb, i, j) == maximum_filter(arr, nb, i, j) = cell(arr, i, j)

\* line 88
background(arr, i, j) == cell(arr, i, j) = 0

\* line 89: binary_erosion(background, structure=neighborhood, border_value=1):
\* every cell under the structure is background, a cell outside the array
\* counting as background
eroded_background(arr, nb, i, j) ==
    \A d \in nb :
        LET ii == i + d[1]
            jj == j + d[2]
        IN (ii \in 0..(Len(arr) - 1) /\ jj \in 0..(Len(arr[1]) - 1)) => background(arr, ii, jj)

\* line 92
detected_peaks(arr, nb, i, j) == local_max(arr, nb, i, j) # eroded_background(arr, nb, i, j)

\* amps >= amp_min
filter_idxs_ge(amp, min) == amp >= min

\* line 102: amps > amp_min
filter_idxs(amp, min) == amp > min

\* np.where(detected_peaks): the cells in row-major order
where(arr) ==
    [k \in 1..(Len(arr) * Len(arr[1])) |-> <<(k - 1) \div Len(arr[1]), (k - 1) % Len(arr[1])>>]

\* lines 75-118 with plot False: list(zip(freqs_filter, times_filter))
get_2D_peaks(arr, min, connectivity, size) ==
    LET nb == neighborhood(connectivity, size)
    IN SelectSeq(where(arr),
                 LAMBDA c : /\ detected_peaks(arr, nb, c[1], c[2])
                            /\ filter_idxs(cell(arr, c[1], c[2]), min))

(***************************************************************************)
(* The state after construction: setup() has created both tables, empty;   *)
(* __init__ has pinged redis and kept a client, or None if the ping failed.*)
(***************************************************************************)
NoEntries == [k \in {} |-> None]

\* no Cursor object
NoCursor == [pc |-> "none", conn |-> 0, cache |-> <<>>, cursor |-> FALSE, extype |-> "None"]

\* one process, no store connection yet; the redis pool of __init__ holds the
\* connection of its ping when the ping went through
ConnInit ==
    /\ Cursor_cache = <<>>
    /\ conns = [c \in {} |-> 0]
    /\ self = NoCursor
    /\ committed = {}
    /\ pending = {}
    /\ raised = "None"
    /\ pid = "parent"
    /\ forked = "no"
    /\ redis_pool = [pid |-> "parent", idle |-> {}, all |-> {}]
    /\ redis_conns = [c \in {} |-> 0]
    /\ redis_used = <<>>

\* the ingesting client before its first call
NoIngest == [pc |-> "start", sid |-> 0, hs |-> <<>>]

\* no call of get_2D_peaks
PeakIdle ==
    /\ CONNECTIVITY_MASK = 1
    /\ PEAK_NEIGHBORHOOD_SIZE = 1
    /\ arr2D = <<>>
    /\ amp_min = 0
    /\ peak_pc = "idle"
    /\ local_maxima = <<>>

\* no call of generate_hashes
GenIdle ==
    /\ PEAK_SORT = FALSE
    /\ MIN_HASH_TIME_DELTA = 0
    /\ MAX_HASH_TIME_DELTA = 0
    /\ peaks = <<>>
    /\ fan_value = 0
    /\ gen_pc = "idle"
    /\ gen_ret = <<>>

Init ==
    /\ songs = {}
    /\ nextId = 1
    /\ fingerprints = <<>>
    /\ ret = None
    /\ redis_client \in BOOLEAN
    /\ redis_up = redis_client
    /\ redis = NoEntries
    /\ entry_src = NoEntries
    /\ pc = "idle"
    /\ hashes = <<>>
    /\ batch_size = 0
    /\ index = 0
    /\ hit_blocks = <<>>
    /\ cache_misses = <<>>
    /\ sql_block = <<>>
    /\ all_sids_flat = <<>>
    /\ all_offsets_diff_flat = <<>>
    /\ dedup_hashes = EmptyDict
    /\ start_keys = {}
    /\ snap = <<>>
    /\ batch_log = <<>>
    /\ GenIdle
    /\ ConnInit
    /\ ingest = NoIngest
    /\ PeakIdle

\* two songs ingested: both insert_song calls made, no hash inserted yet
Library ==
    {[song_id |-> 1, sha1 |-> "a", fingerprinted |-> 0],
     [song_id |-> 2, sha1 |-> "b", fingerprinted |-> 0]}

\* the same after two calls of insert_song
LibraryInit ==
    /\ songs = Library
    /\ nextId = 3
    /\ fingerprints = <<>>
    /\ ret = <<2>>
    /\ redis_client \in BOOLEAN
    /\ redis_up = redis_client
    /\ redis = NoEntries
    /\ entry_src = NoEntries
    /\ pc = "idle"
    /\ hashes = <<>>
    /\ batch_size = 0
    /\ index = 0
    /\ hit_blocks = <<>>
    /\ cache_misses = <<>>
    /\ sql_block = <<>>
    /\ all_sids_flat = <<>>
    /\ all_offsets_diff_flat = <<>>
    /\ dedup_hashes = EmptyDict
    /\ start_keys = {}
    /\ snap = <<>>
    /\ batch_log = <<>>
    /\ GenIdle
    /\ ConnInit
    /\ ingest = NoIngest
    /\ PeakIdle

(***************************************************************************)
(* Store methods. Each is one cursor scope, committed at its end.          *)
(***************************************************************************)
\* MySQLDatabase.insert_song: INSERT_SONG always adds a row with a fresh UUID
\* (idx_sha1 is a plain INDEX, not UNIQUE); the SELECT by sha1 then returns
\* the first row the server yields among all rows of that sha1, an order SQL
\* leaves open.
do_insert_song(file_hash) ==
    /\ nextId <= MaxSongs
    /\ LET sng == songs \cup {[song_id |-> nextId, sha1 |-> file_hash, fingerprinted |-> 0]}
       IN /\ songs' = sng
          /\ \E r \in {x \in sng : x.sha1 = file_hash} : ret' = <<r.song_id>>
    /\ nextId' = nextId + 1
    /\ UNCHANGED <<fingerprints, cache_vars, call_vars>>
    /\ UNCHANGED <<gen_vars, conn_vars, peak_vars>>

\* the same, called by any client but the ingesting one
insert_song(file_hash) == do_insert_song(file_hash) /\ UNCHANGED ingest

\* MySQLDatabase.insert_song when the store fails at one of its two statements:
\* the except clause of lines 497-502 catches the error inside the scope and
\* writes it to stderr, the method falls off its end and returns None, and
\* the scope, left normally, commits. Failing at INSERT_SONG there is no new
\* row; failing at the SELECT the new row is there.
insert_song_fails(file_hash, stage) ==
    /\ stage \in {"INSERT_SONG", "SELECT"}
    /\ IF stage = "INSERT_SONG"
       THEN UNCHANGED <<songs, nextId>>
       ELSE /\ nextId <= MaxSongs
            /\ songs' = songs \cup {[song_id |-> nextId, sha1 |-> file_hash, fingerprinted |-> 0]}
            /\ nextId' = nextId + 1
    /\ ret' = None
    /\ UNCHANGED <<fingerprints, cache_vars, call_vars>>
    /\ UNCHANGED <<gen_vars, conn_vars, peak_vars, ingest>>

\* insert with an explicit invalidation: the cache entry of the hash is deleted
insert_invalidating(fingerprint, song_id, offset) ==
    /\ Len(fingerprints) < MaxRows
    /\ fingerprints' = INSERT_FINGERPRINT(fingerprints, songs, <<fingerprint, song_id, offset>>)
    /\ ret' = None
    /\ redis' = [j \in (DOMAIN redis) \ {redis_key(fingerprint)} |-> redis[j]]
    /\ entry_src' = [j \in (DOMAIN entry_src) \ {redis_key(fingerprint)} |-> entry_src[j]]
    /\ UNCHANGED <<songs, nextId, redis_client, redis_up, call_vars>>
    /\ UNCHANGED <<gen_vars, conn_vars, peak_vars, ingest>>

\* Query.insert
insert(fingerprint, song_id, offset) ==
    /\ Len(fingerprints) < MaxRows
    /\ fingerprints' = INSERT_FINGERPRINT(fingerprints, songs, <<fingerprint, song_id, offset>>)
    /\ ret' = None
    /\ UNCHANGED <<songs, nextId, cache_vars, call_vars>>
    /\ UNCHANGED <<gen_vars, conn_vars, peak_vars, ingest>>

\* Query.query: ret is the list of rows (None and [] are both <<>> here)
query_call(given, fingerprint) ==
    /\ ret' = query(fingerprints, given, fingerprint)
    /\ UNCHANGED <<songs, nextId, fingerprints, cache_vars, call_vars>>
    /\ UNCHANGED <<gen_vars, conn_vars, peak_vars, ingest>>

\* Query.insert_hashes
do_insert_hashes(song_id, hs, bsize) ==
    /\ Len(fingerprints) + Len(hs) <= MaxRows
    /\ fingerprints' = insert_hashes_loop(fingerprints, songs, insert_values(song_id, hs), 0, bsize)
    /\ ret' = None
    /\ UNCHANGED <<songs, nextId, cache_vars, call_vars>>
    /\ UNCHANGED <<gen_vars, conn_vars, peak_vars>>

\* the same, called by any client but the ingesting one
insert_hashes(song_id, hs, bsize) == do_insert_hashes(song_id, hs, bsize) /\ UNCHANGED ingest

\* Query.set_song_fingerprinted: UPDATE songs SET fingerprinted = 1 WHERE song_id = %s
do_set_song_fingerprinted(song_id) ==
    /\ songs' = {IF r.song_id = song_id THEN [r EXCEPT !.fingerprinted = 1] ELSE r : r \in songs}
    /\ ret' = None
    /\ UNCHANGED <<nextId, fingerprints, cache_vars, call_vars>>
    /\ UNCHANGED <<gen_vars, conn_vars, peak_vars>>

\* the same, called by any client but the ingesting one
set_song_fingerprinted(song_id) == do_set_song_fingerprinted(song_id) /\ UNCHANGED ingest

\* Query.delete_unfingerprinted_songs
delete_unfingerprinted_songs ==
    /\ songs' = DELETE_UNFINGERPRINTED(songs)
    /\ fingerprints' = Cascade(fingerprints, DELETE_UNFINGERPRINTED(songs))
    /\ ret' = None
    /\ UNCHANGED <<nextId, cache_vars, call_vars>>
    /\ UNCHANGED <<gen_vars, conn_vars, peak_vars, ingest>>

\* Query.setup, the tables being there: both CREATE TABLE IF NOT EXISTS do
\* nothing, then DELETE_UNFINGERPRINTED
setup ==
    /\ songs' = DELETE_UNFINGERPRINTED(songs)
    /\ fingerprints' = Cascade(fingerprints, DELETE_UNFINGERPRINTED(songs))
    /\ ret' = None
    /\ UNCHANGED <<nextId, cache_vars, call_vars>>
    /\ UNCHANGED <<gen_vars, conn_vars, peak_vars, ingest>>

\* Query.delete_songs_by_id
delete_songs_by_id(song_ids, bsize) ==
    /\ songs' = delete_songs_loop(songs, song_ids, 0, bsize)
    /\ fingerprints' = Cascade(fingerprints, delete_songs_loop(songs, song_ids, 0, bsize))
    /\ ret' = None
    /\ UNCHANGED <<nextId, cache_vars, call_vars>>
    /\ UNCHANGED <<gen_vars, conn_vars, peak_vars, ingest>>

(***************************************************************************)
(* The cache server, seen from outside the program.                        *)
(***************************************************************************)
\* an entry reaches the end of its TTL
expire(k) ==
    /\ k \in DOMAIN redis
    /\ redis' = [j \in (DOMAIN redis) \ {k} |-> redis[j]]
    /\ entry_src' = [j \in (DOMAIN entry_src) \ {k} |-> entry_src[j]]
    /\ UNCHANGED <<store_vars, redis_client, redis_up, call_vars>>
    /\ UNCHANGED <<gen_vars, conn_vars, peak_vars, ingest>>

\* the server stops answering a client that __init__ had connected
redis_fails ==
    /\ redis_client
    /\ redis_up
    /\ redis_up' = FALSE
    /\ UNCHANGED <<store_vars, redis_client, redis, entry_src, call_vars>>
    /\ UNCHANGED <<gen_vars, conn_vars, peak_vars, ingest>>

\* and answers again
redis_recovers ==
    /\ redis_client
    /\ ~redis_up
    /\ redis_up' = TRUE
    /\ UNCHANGED <<store_vars, redis_client, redis, entry_src, call_vars>>
    /\ UNCHANGED <<gen_vars, conn_vars, peak_vars, ingest>>

(***************************************************************************)
(* Query.return_matches, step by step.                                     *)
(***************************************************************************)
\* the end of one pass of the loop of line 251 (lines 308-339), with the
\* blocks the pass has gathered, and the loop's next index
finish_batch(hblocks, sblock) ==
    LET acc == merge(mapper(hashes), sblock, hblocks,
                     [sids |-> all_sids_flat, diffs |-> all_offsets_diff_flat,
                      dedup |-> dedup_hashes])
    IN /\ all_sids_flat' = acc.sids
       /\ all_offsets_diff_flat' = acc.diffs
       /\ dedup_hashes' = acc.dedup
       /\ index' = index + batch_size
       /\ pc' = IF index + batch_size < Len(values(hashes)) THEN "probe" ELSE "done"
       /\ hit_blocks' = <<>>
       /\ cache_misses' = <<>>
       /\ sql_block' = <<>>
       /\ snap' = <<>>

\* the call, lines 235-249
call_return_matches(hs, bsize) ==
    /\ pc = "idle"
    /\ hashes' = hs
    /\ batch_size' = bsize
    /\ index' = 0
    /\ pc' = IF values(hs) = <<>> THEN "done" ELSE "probe"
    /\ start_keys' = {h \in Hashes : redis_key(h) \in DOMAIN redis}
    /\ batch_log' = <<>>
    /\ UNCHANGED <<hit_blocks, cache_misses, sql_block, all_sids_flat,
                   all_offsets_diff_flat, dedup_hashes, snap>>
    /\ UNCHANGED <<store_vars, cache_vars>>
    /\ UNCHANGED <<gen_vars, conn_vars, peak_vars, ingest>>

\* lines 257-278: the read pipeline, or no client
probe ==
    /\ pc = "probe"
    /\ redis_client => redis_up
    /\ LET batch == current_batch(values(hashes), index, batch_size)
           hblocks == IF redis_client THEN read_hits(redis, batch) ELSE <<>>
           misses == IF redis_client THEN read_misses(redis, batch) ELSE batch
       IN IF misses # <<>>
          THEN /\ pc' = "select"
               /\ hit_blocks' = hblocks
               /\ cache_misses' = misses
               /\ UNCHANGED <<index, sql_block, all_sids_flat, all_offsets_diff_flat,
                              dedup_hashes, snap>>
          ELSE finish_batch(hblocks, <<>>)
    /\ batch_log' = Append(batch_log,
          [batch |-> current_batch(values(hashes), index, batch_size),
           entries |-> [h \in {x \in Hashes : redis_client /\ redis_key(x) \in DOMAIN redis}
                           |-> redis[redis_key(h)].rows],
           songs |-> SongIds(songs),
           selects |-> <<>>])
    /\ UNCHANGED <<hashes, batch_size, start_keys>>
    /\ UNCHANGED <<store_vars, cache_vars>>
    /\ UNCHANGED <<gen_vars, conn_vars, peak_vars, ingest>>

\* line 262: pipe.execute() raises redis ConnectionError or TimeoutError; no
\* handler is around it in return_matches
probe_raises ==
    /\ pc = "probe"
    /\ redis_client
    /\ ~redis_up
    /\ pc' = "raised"
    /\ UNCHANGED <<hashes, batch_size, index, hit_blocks, cache_misses, sql_block,
                   all_sids_flat, all_offsets_diff_flat, dedup_hashes, start_keys, snap,
                   batch_log>>
    /\ UNCHANGED <<store_vars, cache_vars>>
    /\ UNCHANGED <<gen_vars, conn_vars, peak_vars, ingest>>

\* lines 282-292: one SELECT_MULTIPLE for the misses of the batch
select ==
    /\ pc = "select"
    /\ LET sql_results == SELECT_MULTIPLE(fingerprints, cache_misses)
       IN IF sql_results # <<>> /\ redis_client
          THEN /\ pc' = "fill"
               /\ sql_block' = sql_results
               /\ snap' = fingerprints
               /\ UNCHANGED <<index, hit_blocks, cache_misses, all_sids_flat,
                              all_offsets_diff_flat, dedup_hashes>>
          ELSE finish_batch(hit_blocks, sql_results)
    /\ batch_log' = [batch_log EXCEPT ![Len(batch_log)].selects =
                         Append(@, [hashes |-> cache_misses, table |-> fingerprints])]
    /\ UNCHANGED <<hashes, batch_size, start_keys>>
    /\ UNCHANGED <<store_vars, cache_vars>>
    /\ UNCHANGED <<gen_vars, conn_vars, peak_vars, ingest>>

\* lines 294-306: the write pipeline (MULTI/EXEC: all its SETEX at once)
fill ==
    /\ pc = "fill"
    /\ redis_up
    /\ redis' = write_pipe(redis, sql_block)
    /\ entry_src' = [k \in DOMAIN redis' |->
                       IF k \in written_keys(sql_block)
                       THEN LET rows == SelectSeq(snap, LAMBDA row : redis_key(row[1]) = k)
                            IN [i \in 1..Len(rows) |-> <<rows[i][2], rows[i][3]>>]
                       ELSE entry_src[k]]
    /\ finish_batch(hit_blocks, sql_block)
    /\ UNCHANGED <<hashes, batch_size, start_keys, batch_log>>
    /\ UNCHANGED <<store_vars, redis_client, redis_up>>
    /\ UNCHANGED <<gen_vars, conn_vars, peak_vars, ingest>>

\* line 306: write_pipe.execute() raises; no handler is around it either
fill_raises ==
    /\ pc = "fill"
    /\ ~redis_up
    /\ pc' = "raised"
    /\ UNCHANGED <<hashes, batch_size, index, hit_blocks, cache_misses, sql_block,
                   all_sids_flat, all_offsets_diff_flat, dedup_hashes, start_keys, snap,
                   batch_log>>
    /\ UNCHANGED <<store_vars, cache_vars>>
    /\ UNCHANGED <<gen_vars, conn_vars, peak_vars, ingest>>

\* the caller has the result (line 342) or the exception, and the frame is gone
leave ==
    /\ pc \in {"done", "raised"}
    /\ pc' = "idle"
    /\ hashes' = <<>>
    /\ batch_size' = 0
    /\ index' = 0
    /\ hit_blocks' = <<>>
    /\ cache_misses' = <<>>
    /\ sql_block' = <<>>
    /\ all_sids_flat' = <<>>
    /\ all_offsets_diff_flat' = <<>>
    /\ dedup_hashes' = EmptyDict
    /\ start_keys' = {}
    /\ snap' = <<>>
    /\ batch_log' = <<>>
    /\ UNCHANGED <<store_vars, cache_vars>>
    /\ UNCHANGED <<gen_vars, conn_vars, peak_vars, ingest>>

(***************************************************************************)
(* The ingesting client: insert_song, insert_hashes, set_song_fingerprinted *)
(* for one song, in that order, each call one scope of its own.            *)
(***************************************************************************)
\* sid = insert_song(...)
ingest_insert_song(file_hash) ==
    /\ ingest.pc = "start"
    /\ do_insert_song(file_hash)
    /\ ingest' = [ingest EXCEPT !.pc = "song", !.sid = ret'[1]]

\* insert_hashes(sid, hs)
ingest_insert_hashes(hs, bsize) ==
    /\ ingest.pc = "song"
    /\ do_insert_hashes(ingest.sid, hs, bsize)
    /\ ingest' = [ingest EXCEPT !.pc = "hashes", !.hs = hs]

\* set_song_fingerprinted(sid)
ingest_set_song_fingerprinted ==
    /\ ingest.pc = "hashes"
    /\ do_set_song_fingerprinted(ingest.sid)
    /\ ingest' = [ingest EXCEPT !.pc = "done"]

(***************************************************************************)
(* A call of generate_hashes.                                              *)
(***************************************************************************)
\* lines 122-156, for a list of at least one peak
generate_hashes_call ==
    /\ gen_pc = "idle"
    /\ peaks # <<>>
    /\ gen_ret' = generate_hashes(peaks, fan_value, PEAK_SORT,
                                  MIN_HASH_TIME_DELTA, MAX_HASH_TIME_DELTA)
    /\ gen_pc' = "done"
    /\ UNCHANGED <<PEAK_SORT, MIN_HASH_TIME_DELTA, MAX_HASH_TIME_DELTA, peaks, fan_value>>
    /\ UNCHANGED <<store_vars, cache_vars, call_vars, conn_vars, peak_vars, ingest>>

\* np.asarray([]) has one axis: peaks[:, 1] (line 124) or peaks[:, 0] (line 126)
\* raises IndexError
generate_hashes_raises ==
    /\ gen_pc = "idle"
    /\ peaks = <<>>
    /\ gen_pc' = "raised"
    /\ UNCHANGED <<PEAK_SORT, MIN_HASH_TIME_DELTA, MAX_HASH_TIME_DELTA, peaks, fan_value,
                   gen_ret>>
    /\ UNCHANGED <<store_vars, cache_vars, call_vars, conn_vars, peak_vars, ingest>>

(***************************************************************************)
(* A call of get_2D_peaks.                                                 *)
(***************************************************************************)
\* lines 75-118
get_2D_peaks_call ==
    /\ peak_pc = "idle"
    /\ local_maxima' = get_2D_peaks(arr2D, amp_min, CONNECTIVITY_MASK, PEAK_NEIGHBORHOOD_SIZE)
    /\ peak_pc' = "done"
    /\ UNCHANGED <<CONNECTIVITY_MASK, PEAK_NEIGHBORHOOD_SIZE, arr2D, amp_min>>
    /\ UNCHANGED <<store_vars, cache_vars, call_vars, gen_vars, conn_vars, ingest>>

(***************************************************************************)
(* Connections: class Cursor (one object per `with self.cursor()` scope)   *)
(* and the redis connection pool of Query.__init__.                        *)
(***************************************************************************)
\* the store connections in state st
ConnsIn(st) == {c \in DOMAIN conns : conns[c].state = st}

\* self._cache = queue.Queue(maxsize=5) (line 530): the queue a new Cursor
\* object reads, given the class attribute: a new, empty one of its own
new_cache(cls_cache) == <<>>

\* redis-py ConnectionPool._checkpid: a pool that finds itself in another
\* process than the one that made it forgets its connections
checkpid_none(pool, p) == pool

checkpid(pool, p) ==
    IF pool.pid = p THEN pool ELSE [pid |-> p, idle |-> {}, all |-> {}]

\* Cursor.__init__: the queue, then a connection from it (pinged) or a new one
Cursor_init ==
    /\ self.pc = "none"
    /\ Cardinality(DOMAIN conns) < MaxConns
    /\ LET q == new_cache(Cursor_cache)
           c == IF q # <<>> THEN Head(q) ELSE Cardinality(DOMAIN conns) + 1
       IN /\ self' = [pc |-> "init", conn |-> c,
                      cache |-> IF q # <<>> THEN Tail(q) ELSE q,
                      cursor |-> FALSE, extype |-> "None"]
          /\ conns' = [k \in (DOMAIN conns) \cup {c} |->
                          IF k = c THEN [pid |-> IF q # <<>> THEN conns[c].pid ELSE pid,
                                         state |-> "inuse"]
                          ELSE conns[k]]
    /\ raised' = "None"
    /\ UNCHANGED <<Cursor_cache, committed, pending, pid, forked,
                   redis_pool, redis_conns, redis_used>>
    /\ UNCHANGED <<store_vars, cache_vars, call_vars, gen_vars, peak_vars, ingest>>

\* Cursor.__enter__
Cursor_enter ==
    /\ self.pc = "init"
    /\ self' = [self EXCEPT !.pc = "body", !.cursor = TRUE]
    /\ UNCHANGED <<Cursor_cache, conns, committed, pending, raised, pid, forked,
                   redis_pool, redis_conns, redis_used>>
    /\ UNCHANGED <<store_vars, cache_vars, call_vars, gen_vars, peak_vars, ingest>>

\* cur.execute of a writing statement in the body of the scope
execute(w) ==
    /\ self.pc = "body"
    /\ w \notin pending \cup committed
    /\ pending' = pending \cup {w}
    /\ UNCHANGED <<Cursor_cache, conns, self, committed, raised, pid, forked,
                   redis_pool, redis_conns, redis_used>>
    /\ UNCHANGED <<store_vars, cache_vars, call_vars, gen_vars, peak_vars, ingest>>

\* the body ends: normally ("None") or by an exception of type extype
body_ends(extype) ==
    /\ self.pc = "body"
    /\ self' = [self EXCEPT !.pc = "exit", !.extype = extype]
    /\ UNCHANGED <<Cursor_cache, conns, committed, pending, raised, pid, forked,
                   redis_pool, redis_conns, redis_used>>
    /\ UNCHANGED <<store_vars, cache_vars, call_vars, gen_vars, peak_vars, ingest>>

\* Cursor.__exit__. `extype is DatabaseError` is true of that class alone, and
\* then self.cursor.rollback() raises AttributeError (a cursor of
\* mysql.connector has no rollback): __exit__ ends there, the cursor open,
\* nothing committed, the connection in no queue; its transaction ends when
\* the connection is dropped. Otherwise the cursor is closed, the
\* transaction committed, and the connection put on the object's own queue,
\* or closed if that queue is full. The Cursor object is dropped after it.
Cursor_exit ==
    /\ self.pc = "exit"
    /\ IF self.extype = "DatabaseError"
       THEN /\ raised' = "AttributeError"
            /\ self' = [self EXCEPT !.pc = "none"]
            /\ conns' = [conns EXCEPT ![self.conn].state = "lost"]
            /\ committed' = committed
            /\ pending' = {}
       ELSE /\ raised' = self.extype
            /\ self' = [self EXCEPT !.pc = "none", !.cursor = FALSE,
                                    !.cache = IF Len(self.cache) < maxsize
                                              THEN Append(self.cache, self.conn)
                                              ELSE self.cache]
            /\ conns' = [conns EXCEPT ![self.conn].state =
                             IF Len(self.cache) < maxsize THEN "queued" ELSE "closed"]
            /\ committed' = committed \cup pending
            /\ pending' = {}
    /\ UNCHANGED <<Cursor_cache, pid, forked, redis_pool, redis_conns, redis_used>>
    /\ UNCHANGED <<store_vars, cache_vars, call_vars, gen_vars, peak_vars, ingest>>

\* a connection that no scope can reach any more (it sits on the queue of a
\* dropped Cursor object, or on none) is closed when it is collected
collect(c) ==
    /\ c \in ConnsIn("queued") \cup ConnsIn("lost")
    /\ conns' = [conns EXCEPT ![c].state = "closed"]
    /\ UNCHANGED <<Cursor_cache, self, committed, pending, raised, pid, forked,
                   redis_pool, redis_conns, redis_used>>
    /\ UNCHANGED <<store_vars, cache_vars, call_vars, gen_vars, peak_vars, ingest>>

\* a command on self.redis_client (the pipelines of return_matches): the
\* pool hands out an idle connection or opens one, and takes it back
redis_command ==
    /\ LET pool == checkpid(redis_pool, pid)
       IN \/ \E c \in pool.idle :
                /\ redis_used' = <<c>>
                /\ redis_pool' = pool
                /\ UNCHANGED redis_conns
          \/ /\ pool.idle = {}
             /\ Cardinality(DOMAIN redis_conns) < MaxRedisConns
             /\ LET c == Cardinality(DOMAIN redis_conns) + 1
                IN /\ redis_used' = <<c>>
                   /\ redis_conns' = [k \in (DOMAIN redis_conns) \cup {c} |->
                                         IF k = c THEN pid ELSE redis_conns[k]]
                   /\ redis_pool' = [pool EXCEPT !.idle = pool.idle \cup {c},
                                                 !.all = pool.all \cup {c}]
    /\ UNCHANGED <<Cursor_cache, conns, self, committed, pending, raised, pid, forked>>
    /\ UNCHANGED <<store_vars, cache_vars, call_vars, gen_vars, peak_vars, ingest>>

\* os.fork between two scopes; the model follows the child, which holds a
\* copy of all the parent held
fork ==
    /\ forked = "no"
    /\ self.pc = "none"
    /\ pid' = "child"
    /\ forked' = "forked"
    /\ redis_used' = <<>>
    /\ UNCHANGED <<Cursor_cache, conns, self, committed, pending, raised,
                   redis_pool, redis_conns>>
    /\ UNCHANGED <<store_vars, cache_vars, call_vars, gen_vars, peak_vars, ingest>>

\* MySQLDatabase.after_fork: Cursor.clear_cache() sets the class attribute
after_fork ==
    /\ forked = "forked"
    /\ self.pc = "none"
    /\ Cursor_cache' = <<<<>>>>
    /\ forked' = "after_fork"
    /\ UNCHANGED <<conns, self, committed, pending, raised, pid,
                   redis_pool, redis_conns, redis_used>>
    /\ UNCHANGED <<store_vars, cache_vars, call_vars, gen_vars, peak_vars, ingest>>

(***************************************************************************)
(* Specifications.                                                         *)
(***************************************************************************)
\* song ids a caller can hold: those insert_song has returned so far
KnownIds == 1..(nextId - 1)

\* arguments of insert_hashes: lists of (hash, offset)
HashLists == SeqsOf(Hashes \X Offsets, 1, MaxInsert)

\* arguments of return_matches: lists of (hash, query offset)
Queries == SeqsOf(Hashes \X Offsets, 0, MaxQuery)

\* the same with one query offset: the cache and the store never see it
PlainQueries == SeqsOf(Hashes \X {0}, 0, MaxQuery)

\* the store methods, with every argument
StoreStep ==
    \/ \E file_hash \in Sha1s : insert_song(file_hash)
    \/ \E h \in Hashes, s \in KnownIds, o \in Offsets : insert(h, s, o)
    \/ \E s \in KnownIds, hs \in HashLists, b \in BatchSizes : insert_hashes(s, hs, b)
    \/ \E s \in KnownIds : set_song_fingerprinted(s)
    \/ delete_unfingerprinted_songs
    \/ setup
    \/ \E ids \in SeqsOf(KnownIds, 1, 2), b \in BatchSizes : delete_songs_by_id(ids, b)
    \/ \E file_hash \in Sha1s, stage \in {"INSERT_SONG", "SELECT"} :
          insert_song_fails(file_hash, stage)

\* the steps of a call of return_matches that redis does not fail
CallStep(Q) ==
    \/ \E hs \in Q, b \in BatchSizes : call_return_matches(hs, b)
    \/ probe
    \/ select
    \/ fill
    \/ leave

Next == StoreStep

\* The store alone: any sequence of store methods, by any number of clients.
Spec == Init /\ [][Next]_vars

\* The store is written only while no call runs and no cache entry is live;
\* an entry that the running call wrote does not reach its TTL before the
\* call returns.
QuietNext ==
    \/ /\ pc = "idle"
       /\ DOMAIN redis = {}
       /\ \E h \in Hashes, s \in KnownIds, o \in Offsets : insert(h, s, o)
    \/ CallStep(Queries)
    \/ probe_raises
    \/ fill_raises
    \/ \E h \in Hashes :
          /\ pc = "idle" \/ h \in start_keys
          /\ expire(redis_key(h))
    \/ redis_fails
    \/ redis_recovers

\* Calls of return_matches over a store that changes only between a call and
\* the next cache fill: the setting of the claims on what a call returns.
QuietSpec == LibraryInit /\ [][QuietNext]_vars

\* Everything at once: a call of return_matches, step by step, among other
\* clients that write the store, entries that expire, and a redis server
\* that stops and resumes answering.
RaceNext ==
    \/ \E h \in Hashes, s \in KnownIds : insert(h, s, 0)
    \/ \E s \in KnownIds, hs \in SeqsOf(Hashes \X {0}, 1, MaxInsert), b \in BatchSizes :
          insert_hashes(s, hs, b)
    \/ \E s \in KnownIds : delete_songs_by_id(<<s>>, 1)
    \/ CallStep(PlainQueries)
    \/ probe_raises
    \/ fill_raises
    \/ \E k \in Keys : expire(k)
    \/ redis_fails
    \/ redis_recovers

RaceSpec == LibraryInit /\ [][RaceNext]_vars

\* the inputs of generate_hashes: every list of peaks, fan value and setting
HashInit ==
    /\ songs = {}
    /\ nextId = 1
    /\ fingerprints = <<>>
    /\ ret = None
    /\ redis_client = FALSE
    /\ redis_up = FALSE
    /\ redis = NoEntries
    /\ entry_src = NoEntries
    /\ pc = "idle"
    /\ hashes = <<>>
    /\ batch_size = 0
    /\ index = 0
    /\ hit_blocks = <<>>
    /\ cache_misses = <<>>
    /\ sql_block = <<>>
    /\ all_sids_flat = <<>>
    /\ all_offsets_diff_flat = <<>>
    /\ dedup_hashes = EmptyDict
    /\ start_keys = {}
    /\ snap = <<>>
    /\ batch_log = <<>>
    /\ PEAK_SORT \in BOOLEAN
    /\ MIN_HASH_TIME_DELTA \in MinDeltas
    /\ MAX_HASH_TIME_DELTA \in MaxDeltas
    /\ peaks \in SeqsOf(Freqs \X Times, 0, MaxPeaks)
    /\ fan_value \in FanValues
    /\ gen_pc = "idle"
    /\ gen_ret = <<>>
    /\ ConnInit
    /\ ingest = NoIngest
    /\ PeakIdle

HashNext ==
    \/ generate_hashes_call
    \/ generate_hashes_raises

\* One call of generate_hashes on any input.
HashSpec == HashInit /\ [][HashNext]_vars

\* one process and its store and cache connections
ScopeInit ==
    /\ songs = {}
    /\ nextId = 1
    /\ fingerprints = <<>>
    /\ ret = None
    /\ redis_client = TRUE
    /\ redis_up = TRUE
    /\ redis = NoEntries
    /\ entry_src = NoEntries
    /\ pc = "idle"
    /\ hashes = <<>>
    /\ batch_size = 0
    /\ index = 0
    /\ hit_blocks = <<>>
    /\ cache_misses = <<>>
    /\ sql_block = <<>>
    /\ all_sids_flat = <<>>
    /\ all_offsets_diff_flat = <<>>
    /\ dedup_hashes = EmptyDict
    /\ start_keys = {}
    /\ snap = <<>>
    /\ batch_log = <<>>
    /\ GenIdle
    /\ ConnInit
    /\ ingest = NoIngest
    /\ PeakIdle

ScopeNext ==
    \/ Cursor_init
    \/ Cursor_enter
    \/ \E w \in Writes : execute(w)
    \/ \E extype \in ExTypes : body_ends(extype)
    \/ Cursor_exit
    \/ \E c \in DOMAIN conns : collect(c)
    \/ redis_command
    \/ fork
    \/ after_fork

\* Cursor scopes one after the other, commands on the cache, and a fork.
ScopeSpec == ScopeInit /\ [][ScopeNext]_vars

\* One client ingests a song while other processes start up (setup) or prune.
IngestNext ==
    \/ \E file_hash \in Sha1s : ingest_insert_song(file_hash)
    \/ \E hs \in HashLists, b \in BatchSizes : ingest_insert_hashes(hs, b)
    \/ ingest_set_song_fingerprinted
    \/ setup
    \/ delete_unfingerprinted_songs

IngestSpec == Init /\ [][IngestNext]_vars

\* Lookups by hash among inserts of single rows.
QueryNext ==
    \/ \E h \in Hashes, s \in KnownIds, o \in Offsets : insert(h, s, o)
    \/ \E h \in Hashes : query_call(TRUE, h)
    \/ query_call(FALSE, 0)

QuerySpec == LibraryInit /\ [][QueryNext]_vars

\* the inputs of get_2D_peaks: every spectrogram of the shapes, amp_min and setting
PeakInit ==
    /\ songs = {}
    /\ nextId = 1
    /\ fingerprints = <<>>
    /\ ret = None
    /\ redis_client = FALSE
    /\ redis_up = FALSE
    /\ redis = NoEntries
    /\ entry_src = NoEntries
    /\ pc = "idle"
    /\ hashes = <<>>
    /\ batch_size = 0
    /\ index = 0
    /\ hit_blocks = <<>>
    /\ cache_misses = <<>>
    /\ sql_block = <<>>
    /\ all_sids_flat = <<>>
    /\ all_offsets_diff_flat = <<>>
    /\ dedup_hashes = EmptyDict
    /\ start_keys = {}
    /\ snap = <<>>
    /\ batch_log = <<>>
    /\ GenIdle
    /\ ConnInit
    /\ ingest = NoIngest
    /\ CONNECTIVITY_MASK \in Connectivities
    /\ PEAK_NEIGHBORHOOD_SIZE \in NeighborhoodSizes
    /\ arr2D \in UNION {[1..sh[1] -> [1..sh[2] -> Amps]] : sh \in Shapes}
    /\ amp_min \in AmpMins
    /\ peak_pc = "idle"
    /\ local_maxima = <<>>

PeakNext == get_2D_peaks_call

\* One call of get_2D_peaks on any input.
PeakSpec == PeakInit /\ [][PeakNext]_vars

(***************************************************************************)
(* What the claims speak of.                                               *)
(***************************************************************************)
\* a list as a multiset: element -> how often it occurs
BagOf(s) == [x \in Range(s) |-> CountIn(s, x)]

\* the matches a finished call returns (line 341)
Matches == results(all_sids_flat, all_offsets_diff_flat)

\* the distinct hashes of the running call's query
QueryHashes == {hashes[k][1] : k \in DOMAIN hashes}

\* the number of store rows with hash h
StoreRows(h) == Cardinality({i \in DOMAIN fingerprints : fingerprints[i][1] = h})

\* the number of query offsets given for h, repeats counted
QueryOffsets(h) == Cardinality({k \in DOMAIN hashes : hashes[k][1] = h})

\* the (song_id, offset) rows the store holds for h
RowsOfHash(h) ==
    LET rows == SelectSeq(fingerprints, LAMBDA row : row[1] = h)
    IN [i \in 1..Len(rows) |-> <<rows[i][2], rows[i][3]>>]

RECURSIVE SumOfProducts(_)
\* the sum over the hashes h of S of StoreRows(h) x QueryOffsets(h)
SumOfProducts(S) ==
    IF S = {} THEN 0
    ELSE LET h == CHOOSE x \in S : TRUE
         IN StoreRows(h) * QueryOffsets(h) + SumOfProducts(S \ {h})

RECURSIVE SumOfStoreRows(_)
\* the number of store rows whose hash is in S
SumOfStoreRows(S) ==
    IF S = {} THEN 0
    ELSE LET h == CHOOSE x \in S : TRUE
         IN StoreRows(h) + SumOfStoreRows(S \ {h})

RECURSIVE SumOfValues(_, _)
\* the sum of the values of dict d over the keys S
SumOfValues(d, S) ==
    IF S = {} THEN 0
    ELSE LET x == CHOOSE y \in S : TRUE
         IN d[x] + SumOfValues(d, S \ {x})

\* the call began with no cache to read: no client, or no entry at all
ColdOrDisabled == ~redis_client \/ start_keys = {}

RECURSIVE direct_run(_, _, _, _, _)
\* return_matches with self.redis_client None, run to its end on table fp:
\* every batch is a cache miss as a whole (line 278) and is read from the
\* store (lines 282-292); acc as in merge
direct_run(hs, bsize, fp, idx, acc) ==
    IF idx >= Len(values(hs)) THEN acc
    ELSE direct_run(hs, bsize, fp, idx + bsize,
                    merge(mapper(hs),
                          SELECT_MULTIPLE(fp, current_batch(values(hs), idx, bsize)),
                          <<>>, acc))

\* what the call would return from the store as it is now, with no cache
Direct == direct_run(hashes, batch_size, fingerprints, 0,
                     [sids |-> <<>>, diffs |-> <<>>, dedup |-> EmptyDict])

(***************************************************************************)
(* C1. With the cache cold or disabled and the store unchanged during the  *)
(* call, return_matches returns as many matches as the sum over the        *)
(* distinct query hashes h of (store rows of h) x (query offsets given for *)
(* h), and the values of dedup_counts sum to the number of store rows      *)
(* whose hash is in the query; an empty query returns [] and {}.           *)
(***************************************************************************)
C1_MatchCount ==
    (pc = "done" /\ ColdOrDisabled) =>
        /\ Len(Matches) = SumOfProducts(QueryHashes)
        /\ SumOfValues(dedup_hashes, DOMAIN dedup_hashes) = SumOfStoreRows(QueryHashes)
        /\ hashes = <<>> => (Matches = <<>> /\ dedup_hashes = EmptyDict)

\* a cold call over two batches: each hash has a store row, one of them two
\* query offsets
C1_Witness ==
    /\ pc = "done"
    /\ redis_client
    /\ start_keys = {}
    /\ batch_size = 1
    /\ Cardinality(QueryHashes) = 2
    /\ \A h \in QueryHashes : StoreRows(h) > 0
    /\ Len(Matches) >= 2

(***************************************************************************)
(* C2. The matches are, as a multiset, exactly the pairs                   *)
(* (song id of a store row, its offset minus a query offset) over every    *)
(* store row and every query offset of the same hash: the exact signed     *)
(* difference, paired with the song id of the row it came from.            *)
(***************************************************************************)
C2_OuterDifference ==
    pc = "done" =>
        /\ Range(Matches) \subseteq KnownIds \X {a - b : a \in Offsets, b \in Offsets}
        /\ \A sid \in KnownIds, d \in {a - b : a \in Offsets, b \in Offsets} :
              CountIn(Matches, <<sid, d>>) =
                  Cardinality({ik \in (DOMAIN fingerprints) \X (DOMAIN hashes) :
                      /\ fingerprints[ik[1]][1] = hashes[ik[2]][1]
                      /\ fingerprints[ik[1]][2] = sid
                      /\ fingerprints[ik[1]][3] - hashes[ik[2]][2] = d})

\* one hash with rows of two songs at two offsets, queried at two offsets:
\* a negative delta among the four matches
C2_Witness ==
    /\ pc = "done"
    /\ Len(Matches) = 4
    /\ \E i, j \in DOMAIN Matches :
          /\ Matches[i][1] # Matches[j][1]
          /\ Matches[i][2] < 0
          /\ Matches[j][2] > 0

(***************************************************************************)
(* C3. With the store unmodified since the cache was filled, a call        *)
(* returns the same multiset of matches and the same dedup_counts as the   *)
(* same call with no cache client, whether the cache is disabled, cold or  *)
(* warm; and with the cache unreachable at construction no call fails.     *)
(***************************************************************************)
C3_CacheBypassEquivalence ==
    /\ pc = "done" =>
          /\ BagOf(Matches) = BagOf(results(Direct.sids, Direct.diffs))
          /\ dedup_hashes = Direct.dedup
    /\ ~redis_client => pc # "raised"

\* a warm call: one query hash served from the cache, the other from the store
C3_Witness ==
    /\ pc = "done"
    /\ redis_client
    /\ QueryHashes \cap start_keys # {}
    /\ QueryHashes \ start_keys # {}
    /\ \A h \in QueryHashes : StoreRows(h) > 0
    /\ Len(Matches) >= 2

(***************************************************************************)
(* C4. A cache failure during a query (the redis server stops answering a  *)
(* client that was reachable at construction) is recovered locally:        *)
(* return_matches never ends by raising.                                   *)
(***************************************************************************)
C4_CacheFailureRecovered == pc # "raised"

(***************************************************************************)
(* C5, as claimed. After a call that ran with a cache client, every query  *)
(* hash that had no cache entry when the call started has an entry that    *)
(* decodes to the complete list of its store rows, with a TTL of 86400.    *)
(***************************************************************************)
C5_FillEveryMiss ==
    (pc = "done" /\ redis_client) =>
        \A h \in QueryHashes \ start_keys :
            /\ redis_key(h) \in DOMAIN redis
            /\ BagOf(redis[redis_key(h)].rows) = BagOf(RowsOfHash(h))
            /\ redis[redis_key(h)].ttl = 86400

(***************************************************************************)
(* C5, amended. The same for every such hash that has at least one store   *)
(* row; a hash with no store row gets no entry.                            *)
(***************************************************************************)
C5_FillMissWithRows ==
    (pc = "done" /\ redis_client) =>
        \A h \in QueryHashes \ start_keys :
            IF StoreRows(h) > 0
            THEN /\ redis_key(h) \in DOMAIN redis
                 /\ BagOf(redis[redis_key(h)].rows) = BagOf(RowsOfHash(h))
                 /\ redis[redis_key(h)].ttl = 86400
            ELSE redis_key(h) \notin DOMAIN redis

\* a miss filled with two rows
C5_Witness ==
    /\ pc = "done"
    /\ redis_client
    /\ \E h \in QueryHashes \ start_keys :
          /\ StoreRows(h) = 2
          /\ redis_key(h) \in DOMAIN redis
          /\ Len(redis[redis_key(h)].rows) = 2

(***************************************************************************)
(* C6. Under any interleaving of return_matches with inserts and song      *)
(* deletions, every cache entry holds all the (song_id, offset) rows its   *)
(* hash had in the store at one earlier instant (that of the SELECT it was *)
(* filled from), never a part of them.                                     *)
(***************************************************************************)
C6_EntryIsSnapshot ==
    /\ DOMAIN entry_src = DOMAIN redis
    /\ \A k \in DOMAIN redis : BagOf(redis[k].rows) = BagOf(entry_src[k])

\* a stale entry: two rows, while the store now holds other rows for the hash
C6_Witness ==
    \E h \in Hashes :
        /\ redis_key(h) \in DOMAIN redis
        /\ Len(redis[redis_key(h)].rows) = 2
        /\ BagOf(redis[redis_key(h)].rows) # BagOf(RowsOfHash(h))

(***************************************************************************)
(* C7. insert_song is idempotent on the file hash: when a row with the     *)
(* same sha1 exists, the call returns the id of that row and the songs     *)
(* table keeps a single row for that sha1.                                 *)
(***************************************************************************)
C7_InsertSongIdempotent ==
    [][\A file_hash \in Sha1s :
          (insert_song(file_hash) /\ \E r \in songs : r.sha1 = file_hash) =>
              /\ \E r \in songs : r.sha1 = file_hash /\ ret' = <<r.song_id>>
              /\ Cardinality({r \in songs' : r.sha1 = file_hash}) = 1]_vars

(***************************************************************************)
(* C8. insert_hashes suppresses duplicates: a call never adds a second     *)
(* copy of a (hash, song_id, offset) row, be the first copy from the same  *)
(* call or from an earlier one.                                            *)
(***************************************************************************)
C8_DuplicatesSuppressed ==
    [][\A s \in KnownIds, hs \in HashLists, b \in BatchSizes :
          insert_hashes(s, hs, b) =>
              \A row \in Range(fingerprints') :
                  CountIn(fingerprints', row) <= IF CountIn(fingerprints, row) > 1
                                                 THEN CountIn(fingerprints, row) ELSE 1]_vars

(***************************************************************************)
(* C9. Store round-trip: after insert_hashes(s, P) has returned, for any   *)
(* batch_size >= 1, SELECT_MULTIPLE over the hashes of P returns, for      *)
(* every pair (h, o) of P, the row (h, s, o).                              *)
(***************************************************************************)
C9_RoundTrip ==
    [][\A s \in KnownIds, hs \in HashLists, b \in BatchSizes :
          insert_hashes(s, hs, b) =>
              \A k \in DOMAIN hs :
                  <<hs[k][1], s, hs[k][2]>> \in
                      Range(SELECT_MULTIPLE(fingerprints', [j \in DOMAIN hs |-> hs[j][1]]))]_vars

(***************************************************************************)
(* C10. After any sequence of store methods every fingerprint row refers   *)
(* to a song_id that is in the songs table.                                *)
(***************************************************************************)
C10_NoOrphans == \A i \in DOMAIN fingerprints : fingerprints[i][2] \in SongIds(songs)

\* a song has been deleted, and rows of another are still there
C10_Witness ==
    /\ KnownIds \ SongIds(songs) # {}
    /\ fingerprints # <<>>

(***************************************************************************)
(* C11. delete_unfingerprinted_songs, and setup which runs the same        *)
(* statement, removes every song with fingerprinted = 0 and all rows of    *)
(* those songs, and leaves every song with fingerprinted = 1 and all of    *)
(* its fingerprint rows as they were.                                      *)
(***************************************************************************)
C11_DeleteUnfingerprintedFrame ==
    [][(delete_unfingerprinted_songs \/ setup) =>
          /\ songs' = {r \in songs : r.fingerprinted = 1}
          /\ fingerprints' =
                SelectSeq(fingerprints,
                          LAMBDA row : \E r \in songs : r.song_id = row[2] /\ r.fingerprinted = 1)]_vars

\* one song is gone; the other is fingerprinted and has kept its row, and the
\* table has room for the row the deleted song had
C11_Witness ==
    /\ nextId = 3
    /\ Cardinality(songs) = 1
    /\ \A r \in songs : r.fingerprinted = 1
    /\ Len(fingerprints) = 1
    /\ \A i \in DOMAIN fingerprints : fingerprints[i][2] \in SongIds(songs)

(***************************************************************************)
(* What the claims on generate_hashes speak of: the peaks in the order the *)
(* pairing sees them, and the index pairs the pairing rule accepts, with   *)
(* plain integers for the times.                                           *)
(***************************************************************************)
\* the peak list after the optional stable sort by time
PairedPeaks == sorted_peaks(peaks, PEAK_SORT)

\* whether the pairing rule accepts the pair of places <<i, j>> (1-based)
Accepts(pr) ==
    /\ pr[2] <= Len(PairedPeaks)
    /\ PairedPeaks[pr[2]][2] - PairedPeaks[pr[1]][2] >= MIN_HASH_TIME_DELTA
    /\ PairedPeaks[pr[2]][2] - PairedPeaks[pr[1]][2] <= MAX_HASH_TIME_DELTA

\* the accepted pairs <<i, j>>, i < j < i + fan_value, by anchor and then by target
AcceptedPairs ==
    Concat([i \in 1..Len(PairedPeaks) |->
               SelectSeq([d \in 1..(fan_value - 1) |-> <<i, i + d>>], Accepts)])

\* the (anchor frequency, target frequency, time delta) of an accepted pair
Triple(pr) ==
    <<PairedPeaks[pr[1]][1], PairedPeaks[pr[2]][1],
      PairedPeaks[pr[2]][2] - PairedPeaks[pr[1]][2]>>

(***************************************************************************)
(* C12. Every emitted hash unpacks to its inputs: h >> 44 is the anchor    *)
(* frequency, (h >> 24) & 0xFFFFF the target frequency, h & 0xFFFFFF the   *)
(* time delta, which lies within the two settings; and distinct triples    *)
(* give distinct hashes.                                                   *)
(***************************************************************************)
C12_HashUnpacks ==
    gen_pc = "done" =>
        /\ Len(gen_ret) = Len(AcceptedPairs)
        /\ \A k \in DOMAIN gen_ret :
              /\ gen_ret[k][1] = Triple(AcceptedPairs[k])
              /\ gen_ret[k][1][3] >= MIN_HASH_TIME_DELTA
              /\ gen_ret[k][1][3] <= MAX_HASH_TIME_DELTA
        /\ \A k, l \in DOMAIN gen_ret :
              Triple(AcceptedPairs[k]) # Triple(AcceptedPairs[l]) =>
                  gen_ret[k][1] # gen_ret[l][1]

(***************************************************************************)
(* C13. generate_hashes emits one (hash, anchor time) pair for each index  *)
(* pair i < j < i + K inside the list whose signed time difference lies    *)
(* within the two settings, in that order, and no other pair.              *)
(***************************************************************************)
C13_PairingExact ==
    gen_pc = "done" =>
        /\ Len(gen_ret) = Len(AcceptedPairs)
        /\ \A k \in DOMAIN gen_ret :
              /\ gen_ret[k][2] = <<0, 0, PairedPeaks[AcceptedPairs[k][1]][2]>>
              /\ gen_ret[k][1][3] =
                    PairedPeaks[AcceptedPairs[k][2]][2] - PairedPeaks[AcceptedPairs[k][1]][2]

\* unsorted peaks: a target earlier than its anchor is passed over, two other
\* pairs are emitted
C13_Witness ==
    /\ gen_pc = "done"
    /\ ~PEAK_SORT
    /\ fan_value = 3
    /\ Len(peaks) = 3
    /\ peaks[2][2] < peaks[1][2]
    /\ Len(gen_ret) = 2

(***************************************************************************)
(* C14. No emitted hash is computed from a peak whose frequency does not   *)
(* fit in 20 bits.                                                         *)
(***************************************************************************)
C14_WideFrequencyRejected ==
    gen_pc = "done" =>
        \A k \in DOMAIN AcceptedPairs :
            /\ Triple(AcceptedPairs[k])[1] < TwoTo20
            /\ Triple(AcceptedPairs[k])[2] < TwoTo20

(***************************************************************************)
(* C15. The store connection pool is bounded and reused: never more than 5 *)
(* idle connections are kept, and a new scope takes a connection that an   *)
(* earlier scope released, when one is kept idle, and opens a new one only *)
(* when none is.                                                           *)
(***************************************************************************)
C15_PoolBoundedAndReused ==
    [][/\ Cardinality(ConnsIn("queued")) <= maxsize
       /\ Cursor_init =>
             IF ConnsIn("queued") # {}
             THEN self'.conn \in ConnsIn("queued") /\ DOMAIN conns' = DOMAIN conns
             ELSE self'.conn \notin DOMAIN conns]_vars

(***************************************************************************)
(* C16. Scope exit: a body that ends normally has its writes committed; a  *)
(* body that raises DatabaseError or a subclass of it has none of its      *)
(* writes committed; in both cases the cursor is closed and the connection *)
(* released (queued or closed).                                            *)
(***************************************************************************)
C16_ExitPolicy ==
    [][Cursor_exit =>
          /\ self.extype = "None" => committed' = committed \cup pending
          /\ self.extype \in {"DatabaseError", "IntegrityError"} => committed' = committed
          /\ ~self'.cursor
          /\ conns'[self.conn].state \in {"queued", "closed"}]_vars

C17_InsertSongSurfacesErrors ==
    [][\A file_hash \in Sha1s :
          (\/ insert_song(file_hash)
           \/ \E stage \in {"INSERT_SONG", "SELECT"} : insert_song_fails(file_hash, stage)) =>
              /\ ret' # None
              /\ ret'[1] \in SongIds(songs')]_vars

\* the positions of the query at which a hash occurs for the first time
FirstSeenAt == {k \in DOMAIN hashes : \A j \in 1..(k - 1) : hashes[j][1] # hashes[k][1]}

\* the distinct hashes of the query, in first-seen order
FirstSeen ==
    [n \in 1..Cardinality(FirstSeenAt) |->
        hashes[CHOOSE k \in FirstSeenAt :
                   Cardinality({j \in FirstSeenAt : j <= k}) = n][1]]

RECURSIVE BatchesUpTo(_)
\* the hashes of the first i passes of the loop, one pass after the other
BatchesUpTo(i) == IF i = 0 THEN <<>> ELSE BatchesUpTo(i - 1) \o batch_log[i].batch

\* the hashes of pass i that had no cache entry when the pass read the cache
Uncached(i) ==
    SelectSeq(batch_log[i].batch, LAMBDA h : h \notin DOMAIN batch_log[i].entries)

\* the (song_id, offset) rows pass i worked with for the n-th hash of its
\* batch: the rows of the cache entry it found, or else the rows the table
\* held for the hash at the pass's SELECT
Served(i, n) ==
    LET h == batch_log[i].batch[n]
    IN IF h \in DOMAIN batch_log[i].entries THEN batch_log[i].entries[h]
       ELSE IF batch_log[i].selects = <<>> THEN <<>>
       ELSE LET rows == SelectSeq(batch_log[i].selects[1].table, LAMBDA row : row[1] = h)
            IN [m \in 1..Len(rows) |-> <<rows[m][2], rows[m][3]>>]

\* every row served to the call, as <<pass, place in the batch, place in the rows>>
ServedRows ==
    UNION {UNION {{<<i, n, m>> : m \in DOMAIN Served(i, n)} :
                     n \in DOMAIN batch_log[i].batch} : i \in DOMAIN batch_log}

(***************************************************************************)
(* C19. return_matches splits the distinct query hashes, in first-seen     *)
(* order, into consecutive batches of at most batch_size, every distinct   *)
(* hash in exactly one batch; per batch it issues at most one store        *)
(* SELECT, whose hash list is exactly the hashes of the batch with no      *)
(* cache entry, and none when every hash of the batch has an entry; a hash *)
(* served from the cache is never also read from the store, so each row    *)
(* served is counted once: once per query offset of its hash.              *)
(***************************************************************************)
C19_OneSelectPerBatch ==
    /\ Len(BatchesUpTo(Len(batch_log))) <= Len(FirstSeen)
    /\ BatchesUpTo(Len(batch_log)) = SubSeq(FirstSeen, 1, Len(BatchesUpTo(Len(batch_log))))
    /\ pc = "done" => BatchesUpTo(Len(batch_log)) = FirstSeen
    /\ \A i \in DOMAIN batch_log :
          /\ Len(batch_log[i].batch) \in 1..batch_size
          /\ i < Len(batch_log) => Len(batch_log[i].batch) = batch_size
          /\ Len(batch_log[i].selects) <= 1
          /\ Uncached(i) = <<>> => batch_log[i].selects = <<>>
          /\ batch_log[i].selects # <<>> => batch_log[i].selects[1].hashes = Uncached(i)
          /\ (Uncached(i) # <<>> /\ ~(i = Len(batch_log) /\ pc = "select")) =>
                 batch_log[i].selects # <<>>
    /\ pc = "done" =>
          /\ SumOfValues(dedup_hashes, DOMAIN dedup_hashes) = Cardinality(ServedRows)
          /\ \A sid \in KnownIds, d \in {a - b : a \in Offsets, b \in Offsets} :
                CountIn(Matches, <<sid, d>>) =
                    Cardinality({q \in ServedRows \X DOMAIN hashes :
                        /\ hashes[q[2]][1] = batch_log[q[1][1]].batch[q[1][2]]
                        /\ Served(q[1][1], q[1][2])[q[1][3]][1] = sid
                        /\ Served(q[1][1], q[1][2])[q[1][3]][2] - hashes[q[2]][2] = d})

\* a finished call of two batches: the first answered from the cache alone,
\* with no SELECT, the second by a SELECT that found rows
C19_Witness ==
    /\ pc = "done"
    /\ Len(batch_log) = 2
    /\ batch_log[1].selects = <<>>
    /\ DOMAIN batch_log[1].entries # {}
    /\ batch_log[2].selects # <<>>
    /\ Len(Matches) >= 2

\* the pass of the loop that had hash h in its batch
PassOf(h) == CHOOSE i \in DOMAIN batch_log : h \in Range(batch_log[i].batch)

\* the (song_id, offset) rows the call worked with for query hash h: the rows
\* of the cache entry its pass found, or else what the table held for h at the
\* instant of the pass's SELECT
Answer(h) ==
    LET rec == batch_log[PassOf(h)]
    IN IF h \in DOMAIN rec.entries THEN rec.entries[h]
       ELSE LET rows == SelectSeq(rec.selects[1].table, LAMBDA row : row[1] = h)
            IN [m \in 1..Len(rows) |-> <<rows[m][2], rows[m][3]>>]

\* every (query position, row of the answer for its hash)
Answered == UNION {{<<k, m>> : m \in DOMAIN Answer(hashes[k][1])} : k \in DOMAIN hashes}

(***************************************************************************)
(* C20. Invalidation is by TTL only. An entry is written only by the store *)
(* fallback (the cache fill after a SELECT) for a hash the pass missed and *)
(* the SELECT found rows for, with the full TTL; an entry disappears only  *)
(* by expiring, in a step that is no cache hit, no insert and no deletion; *)
(* no other step changes an entry. So a finished call answers a hash that  *)
(* had an entry from that entry alone, whatever the store holds by then,   *)
(* and a hash that had none (never cached, or expired) from the store as   *)
(* it was at the call's SELECT.                                            *)
(***************************************************************************)
C20_InvalidationByTTLOnly ==
    /\ [][/\ \A k \in DOMAIN redis' :
                (k \notin DOMAIN redis \/ redis'[k] # redis[k]) =>
                    /\ pc = "fill"
                    /\ redis'[k].ttl = CACHE_TTL
                    /\ \E h \in Range(cache_misses) :
                          /\ redis_key(h) = k
                          /\ \E i \in DOMAIN snap : snap[i][1] = h
          /\ \A k \in (DOMAIN redis) \ (DOMAIN redis') :
                UNCHANGED <<store_vars, call_vars>>]_vars
    /\ [](pc = "done" =>
            /\ \A h \in QueryHashes :
                  h \notin DOMAIN batch_log[PassOf(h)].entries =>
                      /\ batch_log[PassOf(h)].selects # <<>>
                      /\ h \in Range(batch_log[PassOf(h)].selects[1].hashes)
            /\ \A sid \in KnownIds, d \in {a - b : a \in Offsets, b \in Offsets} :
                  CountIn(Matches, <<sid, d>>) =
                      Cardinality({q \in Answered :
                          /\ Answer(hashes[q[1]][1])[q[2]][1] = sid
                          /\ Answer(hashes[q[1]][1])[q[2]][2] - hashes[q[1]][2] = d}))

\* a finished call of two passes: the first answered its hash from an entry
\* that is still there, while the store holds a row for that hash which the
\* entry lacks and the matches lack too; the second read its hash, which had
\* no entry, from the store and found a row
C20_Witness ==
    /\ pc = "done"
    /\ Len(batch_log) = 2
    /\ LET h == batch_log[1].batch[1]
       IN /\ h \in DOMAIN batch_log[1].entries
          /\ redis_key(h) \in DOMAIN redis
          /\ \E i \in DOMAIN fingerprints :
                /\ fingerprints[i][1] = h
                /\ <<fingerprints[i][2], fingerprints[i][3]>> \notin Range(batch_log[1].entries[h])
                /\ <<fingerprints[i][2], fingerprints[i][3] - hashes[1][2]>> \notin Range(Matches)
    /\ batch_log[2].selects # <<>>
    /\ Len(Answer(batch_log[2].batch[1])) > 0
    /\ Len(Matches) = 2

\* the cells of the spectrogram
Cells == (0..(Len(arr2D) - 1)) \X (0..(Len(arr2D[1]) - 1))

\* the cells of the spectrogram in the footprint around cell c: the diamond
\* (CONNECTIVITY_MASK 1) or the square (2) of radius PEAK_NEIGHBORHOOD_SIZE
Around(c) ==
    {n \in Cells :
        IF CONNECTIVITY_MASK = 1
        THEN Abs(n[1] - c[1]) + Abs(n[2] - c[2]) <= PEAK_NEIGHBORHOOD_SIZE
        ELSE /\ Abs(n[1] - c[1]) <= PEAK_NEIGHBORHOOD_SIZE
             /\ Abs(n[2] - c[2]) <= PEAK_NEIGHBORHOOD_SIZE}

\* the amplitude of cell c
Amp(c) == arr2D[c[1] + 1][c[2] + 1]

\* no cell of the footprint around c is louder than c
IsLocalMax(c) == \A n \in Around(c) : Amp(n) <= Amp(c)

\* c and every cell of the footprint around it have amplitude 0
IsErodedBackground(c) == \A n \in Around(c) : Amp(n) = 0

(***************************************************************************)
(* C21. Every cell get_2D_peaks returns has an amplitude strictly greater  *)
(* than amp_min and is a local maximum of the matrix over its footprint;   *)
(* the cells returned, each once, are exactly those where (local maximum   *)
(* XOR eroded zero background) holds and the amplitude exceeds amp_min.    *)
(***************************************************************************)
C21_PeaksStrictlyAboveAmpMin ==
    peak_pc = "done" =>
        /\ \A k \in DOMAIN local_maxima :
              /\ local_maxima[k] \in Cells
              /\ Amp(local_maxima[k]) > amp_min
              /\ IsLocalMax(local_maxima[k])
        /\ Range(local_maxima) =
              {c \in Cells : /\ IsLocalMax(c) # IsErodedBackground(c)
                             /\ Amp(c) > amp_min}
        /\ Cardinality(Range(local_maxima)) = Len(local_maxima)

\* a call that returned a peak and left out two cells: a local maximum whose
\* amplitude equals amp_min, and a cell of amplitude 0 above amp_min in the
\* middle of zero background
C21_Witness ==
    /\ peak_pc = "done"
    /\ local_maxima # <<>>
    /\ \E c \in Cells \ Range(local_maxima) : IsLocalMax(c) /\ Amp(c) = amp_min
    /\ \E c \in Cells \ Range(local_maxima) : IsErodedBackground(c) /\ Amp(c) > amp_min

(***************************************************************************)
(* C22. For every hash value h, 0 included, query(h) returns exactly the   *)
(* (song_id, offset) rows of the fingerprints table whose hash equals h;   *)
(* query(None) returns all rows.                                           *)
(***************************************************************************)
C22_QueryByHash ==
    [][/\ \A h \in Hashes :
             query_call(TRUE, h) => BagOf(ret') = BagOf(RowsOfHash(h))
       /\ query_call(FALSE, 0) =>
             BagOf(ret') = BagOf([i \in DOMAIN fingerprints |->
                                     <<fingerprints[i][2], fingerprints[i][3]>>])]_vars

\* the song ids a finished call returns: in matches or as a key of dedup_counts
ReturnedIds == {Matches[i][1] : i \in DOMAIN Matches} \cup DOMAIN dedup_hashes

(***************************************************************************)
(* C23. Every song id return_matches returns, in matches or as a key of    *)
(* dedup_counts, is the id of a song that is in the songs table while the  *)
(* query runs (at one of its passes, or when it returns), also when songs  *)
(* whose rows an earlier query cached have been deleted since.             *)
(***************************************************************************)
C23_ReturnedSongsExist ==
    pc = "done" =>
        \A sid \in ReturnedIds :
            \/ sid \in SongIds(songs)
            \/ \E i \in DOMAIN batch_log : sid \in batch_log[i].songs

(***************************************************************************)
(* C24. When insert_song, insert_hashes and set_song_fingerprinted have    *)
(* been called in that order for one song and each has returned without    *)
(* error, the song exists with fingerprinted = 1 and every (hash, offset)  *)
(* pair passed to insert_hashes is in the store, whatever calls of setup   *)
(* or delete_unfingerprinted_songs other processes made in between.        *)
(***************************************************************************)
C24_IngestSurvivesPrune ==
    ingest.pc = "done" =>
        /\ \E r \in songs : r.song_id = ingest.sid /\ r.fingerprinted = 1
        /\ \A k \in DOMAIN ingest.hs :
              \E i \in DOMAIN fingerprints :
                  fingerprints[i] = <<ingest.hs[k][1], ingest.sid, ingest.hs[k][2]>>

(***************************************************************************)
(* C25. generate_hashes completes without error for every peak list, the   *)
(* empty list and a list of a single peak included, and returns an empty   *)
(* hash list in those two cases.                                           *)
(***************************************************************************)
C25_GenerateHashesTotal ==
    /\ gen_pc # "raised"
    /\ (gen_pc = "done" /\ Len(peaks) <= 1) => gen_ret = <<>>

=============================================================================
